---------------------------- MODULE Spec2Model ----------------------------
(***************************************************************************)
(* Model of the duet session workflow (syft/grid/duet/__init__.py) and of  *)
(* the wire encoding of the Range and Not-Implemented primitive wrappers   *)
(* (syft/lib/python/range.py, syft/lib/python/not_implemented.py).         *)
(*                                                                         *)
(* Spec       : launch_duet / join_duet, get_available_network,            *)
(*              begin_duet_logger's start of the reporter thread.          *)
(* SpecRange  : Range.__init__, Range._object2proto, Range._proto2object.  *)
(* SpecNI     : _SyNotImplemented: construction, __eq__, upcast,           *)
(*              _object2proto, _proto2object.                              *)
(* SpecReporter : the counterThreads of several begin_duet_logger calls    *)
(*              and the kernel moving sys.stdout.parent_header.            *)
(* SpecTicker : one counterThread beside a node whose counters change;     *)
(*              SpecTickerFair adds the scheduling of the thread.          *)
(***************************************************************************)
EXTENDS Integers, Sequences, FiniteSets, TLC

\* ------------------------------------------------------------------ bounds
\* number of launch_duet / join_duet calls made one after the other
MaxCalls == 2
\* longest candidate list the address repository answers with
MaxAddrs == 2
\* the integers a Range is built from are -MaxInt .. MaxInt
MaxInt == 2
\* the UIDs are 1 .. MaxUid
MaxUid == 3
\* number of reporter threads running side by side (SpecReporter)
MaxThreads == 2
\* the model stops counting the ticks of a reporter here (it keeps rendering)
MaxTick == 11
\* each counter of a node is 0 .. MaxCount
MaxCount == 1

\* ------------------------------------------------------------- value sets
\* candidate addresses of the repository's list
Addrs == {"a1", "a2"}
\* a network_url given by the caller ("" is the default: discover one)
CallerUrls == {"", "url"}
\* target ids: given by the caller of join_duet, or returned by run()
NoTarget == "none"
TargetIds == {"", "T1"}
\* the target ids an exchanger's run() can return
RunReturns == {"T1", "T2"}
\* db_path of launch_duet (None by default)
None == "None"
DbPaths == {None, "db"}
\* Domain(name="Joiner"): no db_path argument is passed
NotGiven == "NotGiven"
\* the exchangers a caller can pass: 1 is the shared default instance
\* OpenGridTokenManualInputExchanger() of the signature, 2 an instance of
\* the caller's own
DefaultExchanger == 1
CallerExchanger == 2

VARIABLES
    pc,                   \* position of the running call in its body
    calls,                \* number of calls started so far
    role,                 \* "launch" | "join" | "none"
    args,                 \* the arguments of the running call
    network_url,          \* local of launch_duet / join_duet
    signaling_client,     \* local: the session register() returned (0: unset)
    my_domain,            \* local: index into nodes (0: unset)
    credential_exchanger, \* local: index into exchangers
    target_id,            \* local: target id
    out_duet,             \* local of launch_duet: root client (its node; 0: unset)
    duet,                 \* local of join_duet: index into transports (0: unset)
    network_addr,         \* get_available_network: the fetched list
    addr_i,               \* get_available_network: position of the for loop
    probes,               \* get_available_network: the probes made, in order
    sessions,             \* number of sessions register() has handed out
    n_nodes,              \* number of Domain objects constructed so far
    n_exchangers,         \* number of exchanger objects constructed so far
    n_transports,         \* number of WebRTCDuet objects constructed so far
    nodes,                \* the Domain objects the running call constructed
    exchangers,           \* the exchangers the running call constructed
    excalls,              \* the running call's method calls on exchangers
    transports,           \* the WebRTCDuet objects the running call constructed
    reporters,            \* the counterThreads started (node of each)
    stdout_has_parent,    \* hasattr(sys.stdout, "parent_header")
    trace,                \* the steps the running call has executed, in order
    result,               \* what the call returned or raised
    r_pc,                 \* Range: "new" | "built" | "encoded" | "decoded" | "error"
    r_obj,                \* Range: the object (start, stop, step of .value; _id)
    r_pb,                 \* Range: the Slice_PB message _object2proto returned
    r_dec,                \* Range: the object _proto2object returned
    ni_obj,               \* _SyNotImplemented: the wrapper
    ni_pb,                \* _SyNotImplemented: the message _object2proto returned
    ni_dec,               \* _SyNotImplemented: what _proto2object returned
    ni_up,                \* _SyNotImplemented: what upcast returned
    ni_other,             \* _SyNotImplemented: the operand of the last __eq__
    ni_eq,                \* _SyNotImplemented: what the last __eq__ returned
    parent_header,        \* sys.stdout.parent_header (NoHeader: no such attribute)
    threads,              \* the counterThreads: position and locals of run()
    stdout_lock,          \* the stdout_lock of each begin_duet_logger call (0: free)
    domains               \* the counters of the nodes the reporters are bound to

vars == <<pc, calls, role, args, network_url, signaling_client, my_domain,
          credential_exchanger, target_id, out_duet, duet, network_addr, addr_i, probes,
          sessions, n_nodes, n_exchangers, n_transports, nodes, exchangers,
          excalls, transports, reporters, stdout_has_parent, trace, result,
          r_pc, r_obj, r_pb, r_dec, ni_obj, ni_pb, ni_dec, ni_up, ni_other,
          ni_eq, parent_header, threads, stdout_lock, domains>>

locals == <<network_url, signaling_client, my_domain, credential_exchanger,
            target_id, out_duet, duet>>
discovery == <<network_addr, addr_i, probes>>
reporter_state == <<parent_header, threads, stdout_lock, domains>>
range_state == <<r_pc, r_obj, r_pb, r_dec>>
ni_state == <<ni_obj, ni_pb, ni_dec, ni_up, ni_other, ni_eq>>
duet_state == <<pc, calls, role, args, network_url, signaling_client,
                my_domain, credential_exchanger, target_id, out_duet, duet,
                network_addr, addr_i, probes, sessions, n_nodes, n_exchangers,
                n_transports, nodes, exchangers, excalls, transports,
                reporters, stdout_has_parent, trace, result, reporter_state>>
\* what no step of launch_duet / join_duet touches
outside == <<stdout_has_parent, range_state, ni_state, reporter_state>>
counters == <<sessions, n_nodes, n_exchangers, n_transports>>
heap == <<counters, nodes, exchangers, excalls, transports, reporters>>

NoArgs == [logging |-> FALSE, network_url |-> "", loopback |-> FALSE,
           credential_exchanger |-> DefaultExchanger, db_path |-> None,
           target_id |-> ""]
NoResult == [kind |-> "none", ref |-> 0, err |-> ""]

\* ------------------------------------------------ values of the primitives
Ints == (0 - MaxInt)..MaxInt
Uids == 1..MaxUid
\* an Optional[int]: None, or an int
Absent == [some |-> FALSE, v |-> 0]
Some(v) == [some |-> TRUE, v |-> v]
OptInts == {Absent} \cup {Some(v) : v \in Ints}
\* an Optional[UID] argument: 0 is None
OptUids == {0} \cup Uids
\* no object
Nothing == [kind |-> "nothing"]

\* ------------------------------------------------- values of the reporter
\* the parent headers of the notebook's cells
Cells == {"cell1", "cell2"}
NoHeader == "no parent_header"
ThreadIds == 1..MaxThreads
\* a counterThread that has not been started
Unstarted ==
    [pc |-> "unstarted", thread_parent |-> NoHeader, save_parent |-> NoHeader,
     before |-> NoHeader, iterator |-> 0, raised |-> FALSE, out |-> <<>>]
\* a Domain just constructed
NewDomain ==
    [store |-> 0, requests |-> 0, message_counter |-> 0,
     request_handlers |-> 0]

\* the duet_id of the session register() returned
duet_id(s) == 100 + s

\* ------------------------------------------------------------------- Init
Init ==
    /\ pc = "idle"
    /\ calls = 0
    /\ role = "none"
    /\ args = NoArgs
    /\ network_url = ""
    /\ signaling_client = 0
    /\ my_domain = 0
    /\ credential_exchanger = 0
    /\ target_id = NoTarget
    /\ out_duet = 0
    /\ duet = 0
    /\ network_addr = <<>>
    /\ addr_i = 0
    /\ probes = <<>>
    /\ sessions = 0
    /\ n_nodes = 0
    /\ n_exchangers = CallerExchanger
    /\ n_transports = 0
    /\ nodes = <<>>
    /\ exchangers = <<>>
    /\ excalls = <<>>
    /\ transports = <<>>
    /\ reporters = <<>>
    /\ stdout_has_parent \in BOOLEAN
    /\ trace = <<>>
    /\ result = NoResult
    /\ r_pc = "new"
    /\ r_obj = Nothing
    /\ r_pb = Nothing
    /\ r_dec = Nothing
    /\ ni_obj = Nothing
    /\ ni_pb = Nothing
    /\ ni_dec = Nothing
    /\ ni_up = Nothing
    /\ ni_other = Nothing
    /\ ni_eq = Nothing
    /\ parent_header = IF stdout_has_parent THEN "cell1" ELSE NoHeader
    /\ threads = [k \in ThreadIds |-> Unstarted]
    /\ stdout_lock = [k \in ThreadIds |-> 0]
    /\ domains = [k \in ThreadIds |-> NewDomain]

\* a step of the running call raises: the exception leaves the call
Raise(step, err) ==
    /\ pc' = "failed"
    /\ trace' = Append(trace, step)
    /\ result' = [kind |-> "error", ref |-> 0, err |-> err]

\* ------------------------------------------------------------ entry points
\* launch_duet(logging, network_url, loopback, credential_exchanger, db_path)
launch_duet(lg, url, lb, ex, db) ==
    /\ pc \in {"idle", "done", "failed"}
    /\ calls < MaxCalls
    /\ calls' = calls + 1
    /\ role' = "launch"
    /\ args' = [logging |-> lg, network_url |-> url, loopback |-> lb,
                credential_exchanger |-> ex, db_path |-> db, target_id |-> ""]
    /\ network_url' = url
    /\ credential_exchanger' = ex
    /\ target_id' = NoTarget
    /\ signaling_client' = 0
    /\ my_domain' = 0
    /\ out_duet' = 0
    /\ duet' = 0
    /\ network_addr' = <<>>
    /\ addr_i' = 0
    /\ probes' = <<>>
    /\ trace' = <<>>
    /\ result' = NoResult
    /\ pc' = "announce"
    /\ nodes' = <<>>
    /\ exchangers' = <<>>
    /\ excalls' = <<>>
    /\ transports' = <<>>
    /\ UNCHANGED <<counters, reporters, outside>>

\* join_duet(target_id, network_url, loopback, credential_exchanger)
join_duet(tid, url, lb, ex) ==
    /\ pc \in {"idle", "done", "failed"}
    /\ calls < MaxCalls
    /\ calls' = calls + 1
    /\ role' = "join"
    /\ args' = [logging |-> FALSE, network_url |-> url, loopback |-> lb,
                credential_exchanger |-> ex, db_path |-> None, target_id |-> tid]
    /\ network_url' = url
    /\ credential_exchanger' = ex
    /\ target_id' = tid
    /\ signaling_client' = 0
    /\ my_domain' = 0
    /\ out_duet' = 0
    /\ duet' = 0
    /\ network_addr' = <<>>
    /\ addr_i' = 0
    /\ probes' = <<>>
    /\ trace' = <<>>
    /\ result' = NoResult
    /\ pc' = "announce"
    /\ nodes' = <<>>
    /\ exchangers' = <<>>
    /\ excalls' = <<>>
    /\ transports' = <<>>
    /\ UNCHANGED <<counters, reporters, outside>>

\* the banner, disclaimer and donation message
Announce ==
    /\ pc = "announce"
    /\ trace' = Append(trace, "announce")
    /\ pc' = "resolve"
    /\ UNCHANGED <<calls, role, args, locals, discovery, heap,
                   outside, result>>

\* if not network_url: network_url = get_available_network()
ResolveNetwork ==
    /\ pc = "resolve"
    /\ IF network_url = ""
          THEN /\ pc' = "fetch"
               /\ trace' = trace
          ELSE /\ pc' = "register"
               /\ trace' = Append(trace, "resolve")
    /\ UNCHANGED <<calls, role, args, locals, discovery, heap,
                   outside, result>>

\* ------------------------------------------------- get_available_network
\* the lists the repository can answer with
RECURSIVE ListsUpTo(_)
ListsUpTo(n) ==
    IF n = 0 THEN {<<>>}
    ELSE LET shorter == ListsUpTo(n - 1)
         IN  shorter \cup {Append(l, a) : l \in {x \in shorter : Len(x) = n - 1},
                                          a \in Addrs}

\* network_addr = json.loads(requests.get(ADDR_REPOSITORY).content)
FetchList ==
    /\ pc = "fetch"
    /\ \E l \in ListsUpTo(MaxAddrs) : network_addr' = l
    /\ addr_i' = 1
    /\ pc' = "probe"
    /\ UNCHANGED <<calls, role, args, locals, probes, heap, outside,
                   trace, result>>

\* the GET of the list (or its parse) raises: nothing catches it
FetchFail ==
    /\ pc = "fetch"
    /\ Raise("resolve", "FetchFailed")
    /\ UNCHANGED <<calls, role, args, locals, discovery, heap,
                   outside>>

\* requests.get(addr + "/metadata") answers: return addr
ProbeAnswers ==
    /\ pc = "probe"
    /\ addr_i <= Len(network_addr)
    /\ probes' = Append(probes, [i |-> addr_i, addr |-> network_addr[addr_i],
                                 ok |-> TRUE])
    /\ network_url' = network_addr[addr_i]
    /\ trace' = Append(trace, "resolve")
    /\ pc' = "register"
    /\ UNCHANGED <<calls, role, args, signaling_client, my_domain,
                   credential_exchanger, target_id, out_duet, duet,
                   network_addr, addr_i, heap, outside, result>>

ProbeFails_skip ==
    /\ pc = "probe"
    /\ addr_i <= Len(network_addr)
    /\ probes' = Append(probes, [i |-> addr_i, addr |-> network_addr[addr_i],
                                 ok |-> FALSE])
    /\ addr_i' = addr_i + 2
    /\ UNCHANGED <<pc, calls, role, args, locals, network_addr, heap,
                   outside, trace, result>>

\* requests.get(addr + "/metadata") raises: error(...); continue
ProbeFails ==
    /\ pc = "probe"
    /\ addr_i <= Len(network_addr)
    /\ probes' = Append(probes, [i |-> addr_i, addr |-> network_addr[addr_i],
                                 ok |-> FALSE])
    /\ addr_i' = addr_i + 1
    /\ UNCHANGED <<pc, calls, role, args, locals, network_addr, heap,
                   outside, trace, result>>

\* the loop ends: traceback_and_raise(Exception("Couldn't find any ..."))
NoneAvailable ==
    /\ pc = "probe"
    /\ addr_i > Len(network_addr)
    /\ Raise("resolve", "NetworkUnavailable")
    /\ UNCHANGED <<calls, role, args, locals, discovery, heap,
                   outside>>

get_available_network ==
    \/ FetchList
    \/ FetchFail
    \/ ProbeAnswers
    \/ ProbeFails
    \/ NoneAvailable

\* ---------------------------------------- the body after the network step
\* (mutant) the node is not constructed before the exchange
RegisterOk_nonode ==
    /\ pc = "register"
    /\ sessions' = sessions + 1
    /\ signaling_client' = sessions + 1
    /\ trace' = Append(trace, "register")
    /\ pc' = "select"
    /\ UNCHANGED <<calls, role, args, network_url, my_domain,
                   credential_exchanger, target_id, out_duet, duet, discovery,
                   n_nodes, n_exchangers, n_transports, nodes, exchangers,
                   excalls, transports, reporters, outside, result>>

\* signaling_client = register(url=network_url)
RegisterOk ==
    /\ pc = "register"
    /\ sessions' = sessions + 1
    /\ signaling_client' = sessions + 1
    /\ trace' = Append(trace, "register")
    /\ pc' = "node"
    /\ UNCHANGED <<calls, role, args, network_url, my_domain,
                   credential_exchanger, target_id, out_duet, duet, discovery,
                   n_nodes, n_exchangers, n_transports, nodes, exchangers,
                   excalls, transports, reporters, outside, result>>

\* register() raises
RegisterFail ==
    /\ pc = "register"
    /\ Raise("register", "RegistrationFailed")
    /\ UNCHANGED <<calls, role, args, locals, discovery, heap,
                   outside>>

\* (mutant) both roles construct the launcher's node
ConstructNode_launcher ==
    /\ pc = "node"
    /\ n_nodes' = n_nodes + 1
    /\ nodes' = Append(nodes, [id |-> n_nodes + 1, name |-> "Launcher",
                               db_path |-> args.db_path])
    /\ my_domain' = n_nodes + 1
    /\ trace' = Append(trace, "node")
    /\ pc' = "select"
    /\ UNCHANGED <<calls, role, args, network_url, signaling_client,
                   credential_exchanger, target_id, out_duet, duet, discovery,
                   sessions, n_exchangers, n_transports, exchangers, excalls,
                   transports, reporters, outside, result>>

\* my_domain = Domain(name="Launcher", db_path=db_path)   (launch_duet)
\* my_domain = Domain(name="Joiner")                      (join_duet)
ConstructNode ==
    /\ pc = "node"
    /\ n_nodes' = n_nodes + 1
    /\ nodes' = Append(nodes,
                  IF role = "launch"
                  THEN [id |-> n_nodes + 1, name |-> "Launcher",
                        db_path |-> args.db_path]
                  ELSE [id |-> n_nodes + 1, name |-> "Joiner",
                        db_path |-> NotGiven])
    /\ my_domain' = n_nodes + 1
    /\ trace' = Append(trace, "node")
    /\ pc' = "select"
    /\ UNCHANGED <<calls, role, args, network_url, signaling_client,
                   credential_exchanger, target_id, out_duet, duet, discovery,
                   sessions, n_exchangers, n_transports, exchangers, excalls,
                   transports, reporters, outside, result>>

\* one method call on an exchanger
\* (tid: set_responder_id's argument; join: set_role's; cred: run's
\* credential; ret: what run returned, NoTarget when it raised)
ExCall(ex, op, tid, cred, join, ret) ==
    [ex |-> ex, op |-> op, tid |-> tid, cred |-> cred, join |-> join,
     ret |-> ret]

\* (mutant) join_duet installs the responder id before it looks at loopback
SelectExchanger_configfirst ==
    /\ pc = "select"
    /\ IF args.loopback
          THEN /\ n_exchangers' = n_exchangers + 1
               /\ exchangers' = Append(exchangers,
                                       [id |-> n_exchangers + 1,
                                        kind |-> "file"])
               /\ credential_exchanger' = n_exchangers + 1
          ELSE /\ n_exchangers' = n_exchangers
               /\ exchangers' = exchangers
               /\ credential_exchanger' = credential_exchanger
    /\ excalls' = IF role = "join"
                  THEN Append(excalls,
                              ExCall(credential_exchanger, "set_responder_id",
                                     target_id, 0, FALSE, NoTarget))
                  ELSE excalls
    /\ pc' = IF role = "join" THEN "set_role" ELSE "run"
    /\ UNCHANGED <<calls, role, args, network_url, signaling_client, my_domain,
                   target_id, out_duet, duet, discovery, sessions, n_nodes,
                   n_transports, nodes, transports, reporters,
                   outside, trace, result>>

\* if loopback: credential_exchanger = OpenGridTokenFileExchanger()
\* else (join_duet only): credential_exchanger.set_responder_id(target_id)
SelectExchanger ==
    /\ pc = "select"
    /\ IF args.loopback
          THEN /\ n_exchangers' = n_exchangers + 1
               /\ exchangers' = Append(exchangers,
                                       [id |-> n_exchangers + 1,
                                        kind |-> "file"])
               /\ credential_exchanger' = n_exchangers + 1
               /\ excalls' = excalls
          ELSE /\ n_exchangers' = n_exchangers
               /\ exchangers' = exchangers
               /\ credential_exchanger' = credential_exchanger
               /\ excalls' = IF role = "join"
                             THEN Append(excalls,
                                    ExCall(credential_exchanger,
                                           "set_responder_id", target_id, 0,
                                           FALSE, NoTarget))
                             ELSE excalls
    /\ pc' = IF role = "join" THEN "set_role" ELSE "run"
    /\ UNCHANGED <<calls, role, args, network_url, signaling_client, my_domain,
                   target_id, out_duet, duet, discovery, sessions, n_nodes,
                   n_transports, nodes, transports, reporters,
                   outside, trace, result>>

\* credential_exchanger.set_role(join=True)   (join_duet; run() is then
\* called on what set_role returns, the exchanger itself)
SetRole ==
    /\ pc = "set_role"
    /\ excalls' = Append(excalls,
                         ExCall(credential_exchanger, "set_role", NoTarget, 0,
                                TRUE, NoTarget))
    /\ pc' = "run"
    /\ UNCHANGED <<calls, role, args, locals, discovery, counters, nodes,
                   exchangers, transports, reporters, outside, trace,
                   result>>

\* target_id = credential_exchanger.run(credential=signaling_client.duet_id)
RunOk ==
    /\ pc = "run"
    /\ \E t \in RunReturns :
          /\ excalls' = Append(excalls,
                               ExCall(credential_exchanger, "run", NoTarget,
                                      duet_id(signaling_client), FALSE, t))
          /\ target_id' = t
    /\ trace' = Append(trace, "exchange")
    /\ pc' = "connect"
    /\ UNCHANGED <<calls, role, args, network_url, signaling_client, my_domain,
                   credential_exchanger, out_duet, duet, discovery, counters,
                   nodes, exchangers, transports, reporters, outside,
                   result>>

\* (mutant) a failed run falls back to a file exchanger and runs again
RunFail_fallback ==
    /\ pc = "run"
    /\ excalls' = Append(excalls,
                         ExCall(credential_exchanger, "run", NoTarget,
                                duet_id(signaling_client), FALSE, NoTarget))
    /\ IF exchangers = <<>>
          THEN /\ n_exchangers' = n_exchangers + 1
               /\ exchangers' = Append(exchangers,
                                       [id |-> n_exchangers + 1,
                                        kind |-> "file"])
               /\ credential_exchanger' = n_exchangers + 1
               /\ UNCHANGED <<pc, trace, result>>
          ELSE /\ Raise("exchange", "CredentialExchangeFailed")
               /\ UNCHANGED <<n_exchangers, exchangers, credential_exchanger>>
    /\ UNCHANGED <<calls, role, args, network_url, signaling_client, my_domain,
                   target_id, out_duet, duet, discovery, sessions, n_nodes,
                   n_transports, nodes, transports, reporters,
                   outside>>

\* run() raises
RunFail ==
    /\ pc = "run"
    /\ excalls' = Append(excalls,
                         ExCall(credential_exchanger, "run", NoTarget,
                                duet_id(signaling_client), FALSE, NoTarget))
    /\ Raise("exchange", "CredentialExchangeFailed")
    /\ UNCHANGED <<calls, role, args, locals, discovery, counters, nodes,
                   exchangers, transports, reporters, outside>>

\* (mutant) join_duet dials the caller's target id, not the one run returned
OpenTransportOk_callerid ==
    /\ pc = "connect"
    /\ n_transports' = n_transports + 1
    /\ transports' = Append(transports,
                       [id |-> n_transports + 1, node |-> my_domain,
                        target_id |-> IF role = "join" THEN args.target_id
                                      ELSE target_id,
                        signaling_client |-> signaling_client,
                        offer |-> (role = "launch")])
    /\ duet' = IF role = "join" THEN n_transports + 1 ELSE duet
    /\ trace' = Append(trace, "transport")
    /\ pc' = IF role = "launch" THEN "client" ELSE "return"
    /\ UNCHANGED <<calls, role, args, network_url, signaling_client, my_domain,
                   credential_exchanger, target_id, out_duet, discovery,
                   sessions, n_nodes, n_exchangers, nodes, exchangers, excalls,
                   reporters, outside, result>>

\* WebRTCDuet(node=my_domain, target_id=target_id,
\*            signaling_client=signaling_client, offer=True | False)
OpenTransportOk ==
    /\ pc = "connect"
    /\ n_transports' = n_transports + 1
    /\ transports' = Append(transports,
                       [id |-> n_transports + 1, node |-> my_domain,
                        target_id |-> target_id,
                        signaling_client |-> signaling_client,
                        offer |-> (role = "launch")])
    /\ duet' = IF role = "join" THEN n_transports + 1 ELSE duet
    /\ trace' = Append(trace, "transport")
    /\ pc' = IF role = "launch" THEN "client" ELSE "return"
    /\ UNCHANGED <<calls, role, args, network_url, signaling_client, my_domain,
                   credential_exchanger, target_id, out_duet, discovery,
                   sessions, n_nodes, n_exchangers, nodes, exchangers, excalls,
                   reporters, outside, result>>

\* WebRTCDuet(...) raises
OpenTransportFail ==
    /\ pc = "connect"
    /\ Raise("transport", "TransportBootstrapFailed")
    /\ UNCHANGED <<calls, role, args, locals, discovery, heap,
                   outside>>

\* out_duet = my_domain.get_root_client()   (launch_duet)
GetRootClient ==
    /\ pc = "client"
    /\ out_duet' = my_domain
    /\ trace' = Append(trace, "client")
    /\ pc' = "logger"
    /\ UNCHANGED <<calls, role, args, network_url, signaling_client, my_domain,
                   credential_exchanger, target_id, duet, discovery, heap,
                   outside, result>>

\* (mutant) the thread is started whatever sys.stdout is
begin_duet_logger_always(node) ==
    reporters' = Append(reporters, [node |-> node, call |-> calls])

\* begin_duet_logger(my_domain): if hasattr(sys.stdout, "parent_header"):
\*                                   counterThread().start()
begin_duet_logger(node) ==
    reporters' = IF stdout_has_parent
                 THEN Append(reporters, [node |-> node, call |-> calls])
                 ELSE reporters

\* if logging: begin_duet_logger(my_domain=my_domain)   (launch_duet)
StartLogger ==
    /\ pc = "logger"
    /\ IF args.logging
          THEN /\ begin_duet_logger(my_domain)
               /\ trace' = Append(trace, "logger")
          ELSE /\ reporters' = reporters
               /\ trace' = trace
    /\ pc' = "return"
    /\ UNCHANGED <<calls, role, args, locals, discovery, counters, nodes,
                   exchangers, excalls, transports, outside, result>>

\* return out_duet   (launch_duet);   return duet   (join_duet)
Return ==
    /\ pc = "return"
    /\ result' = IF role = "launch"
                 THEN [kind |-> "client", ref |-> out_duet, err |-> ""]
                 ELSE [kind |-> "transport", ref |-> duet, err |-> ""]
    /\ trace' = Append(trace, "return")
    /\ pc' = "done"
    /\ UNCHANGED <<calls, role, args, locals, discovery, heap,
                   outside>>

Next ==
    \/ \E lg \in BOOLEAN, url \in CallerUrls, lb \in BOOLEAN,
          ex \in {DefaultExchanger, CallerExchanger}, db \in DbPaths :
            launch_duet(lg, url, lb, ex, db)
    \/ \E tid \in TargetIds, url \in CallerUrls, lb \in BOOLEAN,
          ex \in {DefaultExchanger, CallerExchanger} :
            join_duet(tid, url, lb, ex)
    \/ Announce
    \/ ResolveNetwork
    \/ get_available_network
    \/ RegisterOk
    \/ RegisterFail
    \/ ConstructNode
    \/ SelectExchanger
    \/ SetRole
    \/ RunOk
    \/ RunFail
    \/ OpenTransportOk
    \/ OpenTransportFail
    \/ GetRootClient
    \/ StartLogger
    \/ Return

Spec == Init /\ [][Next]_vars

\* ================================================================== Range
\* UID._object2proto / deserialize(blob=proto.id): the UID's value travels in
\* the message's value field
UID_object2proto(uid) == [value |-> uid]
UID_proto2object(proto) == proto.value

\* Slice_PB(): every int field 0, every bool field False, no id
Slice_PB ==
    [start |-> 0, has_start |-> FALSE, stop |-> 0, has_stop |-> FALSE,
     step |-> 0, has_step |-> FALSE, id |-> [value |-> 0]]

\* Range.__init__(start, stop, step, id), for a step other than 0:
\* if stop is None: stop = start; start = 0
\* self.value = range(start, stop, step); self._id = id if id else UID()
Range_init(start, stop, step, id, fresh) ==
    [kind |-> "Range",
     start |-> IF stop.some THEN start ELSE 0,
     stop |-> IF stop.some THEN stop.v ELSE start,
     step |-> step,
     id |-> IF id # 0 THEN id ELSE fresh]

\* Range._object2proto
Range_object2proto(self) ==
    LET pb1 == IF self.start # 0
               THEN [Slice_PB EXCEPT !.start = self.start, !.has_start = TRUE]
               ELSE Slice_PB
        pb2 == IF self.stop # 0
               THEN [pb1 EXCEPT !.stop = self.stop, !.has_stop = TRUE]
               ELSE pb1
        pb3 == IF self.step # 0
               THEN [pb2 EXCEPT !.step = self.step, !.has_step = TRUE]
               ELSE pb2
    IN  [pb3 EXCEPT !.id = UID_object2proto(self.id)]

\* Range._proto2object: returns Slice(start=, stop=, step=, id=)
Range_proto2object(proto) ==
    LET id_ == UID_proto2object(proto.id)
        start == IF proto.has_start THEN Some(proto.start) ELSE Absent
        stop == IF proto.has_stop THEN Some(proto.stop) ELSE Absent
        step == IF proto.has_step THEN Some(proto.step) ELSE Absent
    IN  [kind |-> "Slice", start |-> start, stop |-> stop, step |-> step,
         id |-> id_]

\* Range(start, stop, step, id)
NewRange ==
    /\ r_pc = "new"
    /\ \E start \in Ints, stop \in OptInts, step \in Ints, id \in OptUids,
          fresh \in Uids :
          IF step = 0
          THEN \* range() raises ValueError: no object
               /\ r_pc' = "error"
               /\ r_obj' = r_obj
          ELSE /\ r_pc' = "built"
               /\ r_obj' = Range_init(start, stop, step, id, fresh)
    /\ UNCHANGED <<duet_state, r_pb, r_dec, ni_state>>

\* serialize: r._object2proto()
EncodeRange ==
    /\ r_pc = "built"
    /\ r_pb' = Range_object2proto(r_obj)
    /\ r_pc' = "encoded"
    /\ UNCHANGED <<duet_state, r_obj, r_dec, ni_state>>

\* deserialize: Range._proto2object(proto)
DecodeRange ==
    /\ r_pc = "encoded"
    /\ r_dec' = Range_proto2object(r_pb)
    /\ r_pc' = "decoded"
    /\ UNCHANGED <<duet_state, r_obj, r_pb, ni_state>>

NextRange ==
    \/ NewRange
    \/ EncodeRange
    \/ DecodeRange

SpecRange == Init /\ [][NextRange]_vars

\* ====================================================== _SyNotImplemented
\* the raw sentinel NotImplemented
RawNotImplemented == [kind |-> "NotImplemented", id |-> 0]
\* a wrapper instance
Wrapper(id) == [kind |-> "_SyNotImplemented", id |-> id]
\* PrimitiveFactory.generate_primitive(value=True)
PrimitiveTrue == [kind |-> "Bool", id |-> 1]
\* operands of __eq__: wrappers, the sentinel, and values of other types
Operands ==
    {Wrapper(u) : u \in Uids} \cup
    {RawNotImplemented, [kind |-> "int", id |-> 0], [kind |-> "None", id |-> 0]}

\* _SyNotImplemented.__init__(id): self._id = id if id else UID()
NI_init(id, fresh) == Wrapper(IF id # 0 THEN id ELSE fresh)

\* _SyNotImplemented.__eq__
NI_eq(self, other) ==
    IF other.kind = "_SyNotImplemented" THEN PrimitiveTrue
    ELSE IF other = RawNotImplemented THEN PrimitiveTrue
    \* NotImplemented.__eq__(other) is object.__eq__: NotImplemented for
    \* an operand that is not the sentinel itself
    ELSE RawNotImplemented

\* _SyNotImplemented.upcast
NI_upcast(self) == RawNotImplemented

\* _SyNotImplemented._object2proto
NI_object2proto(self) == [id |-> UID_object2proto(self.id)]

NI_proto2object_envelope(proto) ==
    LET not_impl_id == UID_proto2object(proto.id)
        de_not_impl == [Wrapper(0) EXCEPT !.id = not_impl_id]
    IN  de_not_impl

\* _SyNotImplemented._proto2object: rebuilds the wrapper and returns the
\* sentinel
NI_proto2object(proto) ==
    LET not_impl_id == UID_proto2object(proto.id)
        de_not_impl == [Wrapper(0) EXCEPT !.id = not_impl_id]
    IN  RawNotImplemented

\* _SyNotImplemented(id)
NewNI ==
    /\ \E id \in OptUids, fresh \in Uids : ni_obj' = NI_init(id, fresh)
    /\ ni_pb' = Nothing
    /\ ni_dec' = Nothing
    /\ ni_up' = Nothing
    /\ ni_other' = Nothing
    /\ ni_eq' = Nothing
    /\ UNCHANGED <<duet_state, range_state>>

EncodeNI ==
    /\ ni_obj # Nothing
    /\ ni_pb' = NI_object2proto(ni_obj)
    /\ UNCHANGED <<duet_state, range_state, ni_obj, ni_dec, ni_up, ni_other,
                   ni_eq>>

DecodeNI ==
    /\ ni_pb # Nothing
    /\ ni_dec' = NI_proto2object(ni_pb)
    /\ UNCHANGED <<duet_state, range_state, ni_obj, ni_pb, ni_up, ni_other,
                   ni_eq>>

UpcastNI ==
    /\ ni_obj # Nothing
    /\ ni_up' = NI_upcast(ni_obj)
    /\ UNCHANGED <<duet_state, range_state, ni_obj, ni_pb, ni_dec, ni_other,
                   ni_eq>>

\* ni_obj == other
EqNI ==
    /\ ni_obj # Nothing
    /\ \E other \in Operands :
          /\ ni_other' = other
          /\ ni_eq' = NI_eq(ni_obj, other)
    /\ UNCHANGED <<duet_state, range_state, ni_obj, ni_pb, ni_dec, ni_up>>

NextNI ==
    \/ NewNI
    \/ EncodeNI
    \/ DecodeNI
    \/ UpcastNI
    \/ EqNI

SpecNI == Init /\ [][NextNI]_vars

\* ========================================================= counterThread
\* the state of the thread that calls launch_duet / join_duet
main_state == <<pc, calls, role, args, locals, discovery, heap,
                stdout_has_parent, trace, result>>
\* what no step of a counterThread touches
not_reporter == <<main_state, range_state, ni_state>>

\* the node thread k is bound to (my_domain of its begin_duet_logger call)
NodeOf(k) == reporters[k].node
Started(k) == k \in DOMAIN reporters

\* launch_duet(logging=True), from the construction of its node to its call
\* of begin_duet_logger(my_domain): a new lock, a new counterThread
StartReporter(max) ==
    /\ pc = "idle"
    /\ n_nodes < max
    /\ n_nodes' = n_nodes + 1
    /\ calls' = calls + 1
    /\ begin_duet_logger(n_nodes + 1)
    /\ threads' = IF stdout_has_parent
                  THEN [threads EXCEPT ![Len(reporters) + 1].pc = "start"]
                  ELSE threads
    /\ UNCHANGED <<pc, role, args, locals, discovery, sessions, n_exchangers,
                   n_transports, nodes, exchangers, excalls, transports,
                   stdout_has_parent, trace, result, range_state, ni_state,
                   parent_header, stdout_lock, domains>>

\* the kernel runs another cell: the output of the process goes to it
NewCell ==
    /\ stdout_has_parent
    /\ \E c \in Cells \ {parent_header} : parent_header' = c
    /\ UNCHANGED <<not_reporter, threads, stdout_lock, domains>>

\* the node changes: an object stored or deleted, a request received or
\* resolved, a message counted, a handler added or removed
NodeChanges(n) ==
    /\ n <= n_nodes
    /\ \E f \in {"store", "requests", "message_counter", "request_handlers"},
          d \in {-1, 1} :
          /\ f = "message_counter" => d = 1
          /\ domains[n][f] + d \in 0..MaxCount
          /\ domains' = [domains EXCEPT ![n][f] = @ + d]
    /\ UNCHANGED <<not_reporter, parent_header, threads, stdout_lock>>

\* bcolors
BOLD == "BOLD"
ENDC == "ENDC"
FAIL == "FAIL"

Render_period(iterator, n_objects, n_requests, n_messages, n_request_handlers) ==
    LET blink_on == (iterator % 5) = 0
        hot == blink_on /\ n_requests > 0
    IN  [star |-> IF blink_on THEN "*" ELSE "-",
         objects |-> n_objects,
         left_color |-> IF hot THEN FAIL ELSE "",
         right_color |-> IF hot THEN ENDC ELSE "",
         left_blink |-> IF hot THEN <<BOLD, ">", ENDC>> ELSE <<" ">>,
         requests |-> n_requests,
         right_blink |-> IF hot THEN <<BOLD, "<", ENDC>> ELSE <<" ">>,
         messages |-> n_messages,
         request_handlers |-> n_request_handlers]

\* the line run() prints: "DUET LIVE STATUS  " + star + "  Objects: " + ...
\* (the fields between the fixed texts)
Render(iterator, n_objects, n_requests, n_messages, n_request_handlers) ==
    LET blink_on == ((iterator \div 5) % 2) = 0
        hot == blink_on /\ n_requests > 0
    IN  [star |-> IF blink_on THEN "*" ELSE "-",
         objects |-> n_objects,
         left_color |-> IF hot THEN FAIL ELSE "",
         right_color |-> IF hot THEN ENDC ELSE "",
         left_blink |-> IF hot THEN <<BOLD, ">", ENDC>> ELSE <<" ">>,
         requests |-> n_requests,
         right_blink |-> IF hot THEN <<BOLD, "<", ENDC>> ELSE <<" ">>,
         messages |-> n_messages,
         request_handlers |-> n_request_handlers]

\* run(): thread_parent = sys.stdout.parent_header; iterator = 0
ThreadStart(k) ==
    /\ threads[k].pc = "start"
    /\ threads' = [threads EXCEPT ![k].thread_parent = parent_header,
                                  ![k].iterator = 0,
                                  ![k].pc = "sleep"]
    /\ UNCHANGED <<not_reporter, parent_header, stdout_lock, domains>>

\* time.sleep(0.1) returns
Sleep(k) ==
    /\ threads[k].pc = "sleep"
    /\ threads' = [threads EXCEPT ![k].pc = "enter"]
    /\ UNCHANGED <<not_reporter, parent_header, stdout_lock, domains>>

\* set_stdout_parent: save_parent = sys.stdout.parent_header
SaveParent(k) ==
    /\ threads[k].pc = "enter"
    /\ threads' = [threads EXCEPT ![k].save_parent = parent_header,
                                  ![k].pc = "acquire"]
    /\ UNCHANGED <<not_reporter, parent_header, stdout_lock, domains>>

\* set_stdout_parent: with stdout_lock:
Acquire(k) ==
    /\ threads[k].pc = "acquire"
    /\ stdout_lock[k] = 0
    /\ stdout_lock' = [stdout_lock EXCEPT ![k] = k]
    /\ threads' = [threads EXCEPT ![k].pc = "set"]
    /\ UNCHANGED <<not_reporter, parent_header, domains>>

\* set_stdout_parent: sys.stdout.parent_header = parent
\* (before: the value this assignment replaces)
SetParent(k) ==
    /\ threads[k].pc = "set"
    /\ parent_header' = threads[k].thread_parent
    /\ threads' = [threads EXCEPT ![k].before = parent_header,
                                  ![k].pc = "body"]
    /\ UNCHANGED <<not_reporter, stdout_lock, domains>>

\* the body of the with: the four counters are read, the line is printed
Body(k) ==
    /\ threads[k].pc = "body"
    /\ LET my_domain_ == domains[NodeOf(k)]
       IN  threads' = [threads EXCEPT
                         ![k].out = Render(threads[k].iterator,
                                           my_domain_.store,
                                           my_domain_.requests,
                                           my_domain_.message_counter,
                                           my_domain_.request_handlers),
                         ![k].pc = "flush"]
    /\ UNCHANGED <<not_reporter, parent_header, stdout_lock, domains>>

\* a read of the node or the print raises: the finally clause runs
BodyRaises(k) ==
    /\ threads[k].pc = "body"
    /\ threads' = [threads EXCEPT ![k].raised = TRUE, ![k].pc = "flush"]
    /\ UNCHANGED <<not_reporter, parent_header, stdout_lock, domains>>

\* finally: sys.stdout.flush()  (the line goes to the cell of parent_header)
Flush(k) ==
    /\ threads[k].pc = "flush"
    /\ threads' = [threads EXCEPT ![k].pc = "restore"]
    /\ UNCHANGED <<not_reporter, parent_header, stdout_lock, domains>>

\* finally: sys.stdout.parent_header = save_parent
Restore(k) ==
    /\ threads[k].pc = "restore"
    /\ parent_header' = threads[k].save_parent
    /\ threads' = [threads EXCEPT ![k].pc = "release"]
    /\ UNCHANGED <<not_reporter, stdout_lock, domains>>

Release_leak(k) ==
    /\ threads[k].pc = "release"
    /\ stdout_lock' = IF threads[k].raised THEN stdout_lock
                      ELSE [stdout_lock EXCEPT ![k] = 0]
    /\ threads' = IF threads[k].raised
                  THEN [threads EXCEPT ![k].pc = "dead", ![k].out = <<>>,
                                       ![k].before = NoHeader]
                  ELSE [threads EXCEPT
                          ![k].iterator = IF @ < MaxTick THEN @ + 1 ELSE @,
                          ![k].out = <<>>,
                          ![k].before = NoHeader,
                          ![k].pc = "sleep"]
    /\ UNCHANGED <<not_reporter, parent_header, domains>>

\* the with releases stdout_lock; then iterator += 1 and the loop goes on,
\* or the exception of the body ends run()
Release(k) ==
    /\ threads[k].pc = "release"
    /\ stdout_lock' = [stdout_lock EXCEPT ![k] = 0]
    /\ threads' = IF threads[k].raised
                  THEN [threads EXCEPT ![k].pc = "dead", ![k].out = <<>>,
                                       ![k].before = NoHeader]
                  ELSE [threads EXCEPT
                          ![k].iterator = IF @ < MaxTick THEN @ + 1 ELSE @,
                          ![k].out = <<>>,
                          ![k].before = NoHeader,
                          ![k].pc = "sleep"]
    /\ UNCHANGED <<not_reporter, parent_header, domains>>

\* one step of counterThread k
counterThread(k) ==
    \/ ThreadStart(k)
    \/ Sleep(k)
    \/ SaveParent(k)
    \/ Acquire(k)
    \/ SetParent(k)
    \/ Body(k)
    \/ BodyRaises(k)
    \/ Flush(k)
    \/ Restore(k)
    \/ Release(k)

NextReporter ==
    \/ StartReporter(MaxThreads)
    \/ NewCell
    \/ \E k \in ThreadIds : counterThread(k)

SpecReporter == Init /\ [][NextReporter]_vars

NextTicker ==
    \/ StartReporter(1)
    \/ NodeChanges(1)
    \/ \E k \in ThreadIds : counterThread(k)

SpecTicker == Init /\ [][NextTicker]_vars

\* the scheduler runs every thread that can take a step
SpecTickerFair ==
    SpecTicker /\ \A k \in ThreadIds : WF_vars(counterThread(k))

\* ============================================================ properties
\* steps the running call has completed (a raising step is the trace's last
\* entry and has not completed)
Completed(step) ==
    \E i \in DOMAIN trace :
        /\ trace[i] = step
        /\ ~(pc = "failed" /\ i = Len(trace))

\* the step that raised
FailedStep == trace[Len(trace)]

\* the order of the steps in the bodies of launch_duet and join_duet
Rank(step) ==
    CASE step = "announce"  -> 1
      [] step = "resolve"   -> 2
      [] step = "register"  -> 3
      [] step = "node"      -> 4
      [] step = "exchange"  -> 5
      [] step = "transport" -> 6
      [] step = "client"    -> 7
      [] step = "logger"    -> 8
      [] step = "return"    -> 9

\* the order the specification gives: the node is part of the bootstrap,
\* after the credential exchange
ClaimedRank(step) ==
    CASE step = "announce"  -> 1
      [] step = "resolve"   -> 2
      [] step = "register"  -> 3
      [] step = "exchange"  -> 4
      [] step = "node"      -> 5
      [] step = "transport" -> 6
      [] step = "client"    -> 7
      [] step = "logger"    -> 8
      [] step = "return"    -> 9

RunCalls == {i \in DOMAIN excalls : excalls[i].op = "run"}
InCall == pc \notin {"idle"}

\* C1 (as stated): the steps of a call run in the order announce, resolve,
\* register, exchange credential, construct node, open transport, expose:
\* the node is constructed only after the exchanger has run.
C1_ClaimedOrder ==
    /\ \A i, j \in DOMAIN trace :
          i < j => ClaimedRank(trace[i]) < ClaimedRank(trace[j])
    /\ nodes # <<>> => RunCalls # {}

\* C1 (amended): the steps of a call run strictly in the order announce,
\* resolve network, register, construct the fresh node, exchange credential,
\* open the transport, expose the result; each at most once; the node exists
\* before the exchanger is run, the exchanger has returned before the
\* transport is opened, and a call that returns has done all of them.
C1_CodeOrder ==
    /\ \A i, j \in DOMAIN trace : i < j => Rank(trace[i]) < Rank(trace[j])
    /\ excalls # <<>> => (Len(nodes) = 1 /\ Completed("node"))
    /\ exchangers # <<>> => (Len(nodes) = 1 /\ Completed("node"))
    /\ nodes # <<>> => (Completed("register") /\ signaling_client > 0)
    /\ signaling_client > 0 => Completed("resolve")
    /\ transports # <<>> => (Completed("exchange") /\ RunCalls # {})
    /\ result.kind \in {"client", "transport"} =>
          /\ Len(transports) = 1
          /\ \A st \in {"announce", "resolve", "register", "node",
                        "exchange", "transport", "return"} : Completed(st)

C1_Witness ==
    /\ pc = "done"
    /\ role = "launch"
    /\ args.network_url = ""
    /\ Len(probes) = 2
    /\ trace = <<"announce", "resolve", "register", "node", "exchange",
                 "transport", "client", "logger", "return">>

\* the error each step raises
ErrorsOf(step) ==
    CASE step = "resolve"   -> {"FetchFailed", "NetworkUnavailable"}
      [] step = "register"  -> {"RegistrationFailed"}
      [] step = "exchange"  -> {"CredentialExchangeFailed"}
      [] step = "transport" -> {"TransportBootstrapFailed"}
      [] OTHER -> {}

\* C2: a call in which discovery, registration, the credential exchange or
\* the transport bootstrap fails ends with that step's error; no step after
\* the failing one has run, no step was tried twice and no other exchanger was
\* tried, no client or transport handle exists or is returned, and the call
\* started no reporter.
C2_FailureAborts ==
    pc = "failed" =>
        /\ result.kind = "error"
        /\ result.ref = 0
        /\ result.err \in ErrorsOf(FailedStep)
        /\ \A i \in 1..(Len(trace) - 1) : Rank(trace[i]) < Rank(FailedStep)
        /\ Cardinality(RunCalls) <= 1
        /\ \A i, j \in DOMAIN excalls : excalls[i].ex = excalls[j].ex
        /\ Len(exchangers) <= 1
        /\ transports = <<>>
        /\ out_duet = 0
        /\ duet = 0
        /\ \A k \in DOMAIN reporters : reporters[k].call # calls
        /\ FailedStep \in {"resolve", "register"} =>
              (nodes = <<>> /\ excalls = <<>> /\ exchangers = <<>>)
        /\ FailedStep = "resolve" => signaling_client = 0
        /\ FailedStep = "exchange" =>
              (RunCalls = {Len(excalls)} /\ excalls[Len(excalls)].ret = NoTarget)

C2_Witness ==
    /\ pc = "failed"
    /\ result.err = "CredentialExchangeFailed"
    /\ role = "join"
    /\ calls = 2
    /\ Len(reporters) = 1

\* get_available_network has returned or raised in the running call
Discovered ==
    /\ InCall
    /\ args.network_url = ""
    /\ pc \notin {"announce", "resolve", "fetch", "probe"}
    /\ result.err # "FetchFailed"

\* C3: the candidates are probed in list order, each position at most once,
\* none after one that answered; the address returned is that of the first
\* candidate whose probe answered; when no probe answered (the empty list
\* included) the call raises the 'no available network' error and returns
\* no address.
C3_FirstResponder ==
    /\ Len(probes) <= Len(network_addr)
    /\ \A k \in DOMAIN probes :
          /\ probes[k].i = k
          /\ probes[k].addr = network_addr[k]
          /\ k < Len(probes) => ~probes[k].ok
    /\ Discovered =>
          IF \E k \in DOMAIN probes : probes[k].ok
          THEN /\ probes[Len(probes)].ok
               /\ network_url = network_addr[Len(probes)]
               /\ result.err # "NetworkUnavailable"
               /\ Completed("resolve")
          ELSE /\ Len(probes) = Len(network_addr)
               /\ result.err = "NetworkUnavailable"
               /\ pc = "failed"
               /\ network_url = ""

C3_Witness ==
    /\ pc = "register"
    /\ Len(network_addr) = 2
    /\ network_addr[1] # network_addr[2]
    /\ probes = <<[i |-> 1, addr |-> network_addr[1], ok |-> FALSE],
                  [i |-> 2, addr |-> network_addr[2], ok |-> TRUE]>>
    /\ network_url = network_addr[2]

\* C4: with loopback the exchanger that is configured and run is one
\* constructed in this call, a file exchanger, and no method of the caller's
\* exchanger is called; without loopback every method call is on the
\* caller's exchanger (the default instance when none was passed) and none
\* is constructed.
C4_LoopbackExchanger ==
    InCall =>
        IF args.loopback
        THEN /\ Len(exchangers) <= 1
             /\ \A e \in DOMAIN exchangers :
                   /\ exchangers[e].kind = "file"
                   /\ exchangers[e].id = n_exchangers
                   /\ exchangers[e].id \notin {DefaultExchanger, CallerExchanger}
             /\ \A i \in DOMAIN excalls :
                   /\ exchangers # <<>>
                   /\ excalls[i].ex = exchangers[1].id
                   /\ excalls[i].ex # args.credential_exchanger
             /\ Completed("exchange") => RunCalls # {}
        ELSE /\ exchangers = <<>>
             /\ \A i \in DOMAIN excalls :
                   excalls[i].ex = args.credential_exchanger
             /\ Completed("exchange") => RunCalls # {}

C4_Witness ==
    /\ pc = "done"
    /\ role = "join"
    /\ args.loopback
    /\ args.credential_exchanger = CallerExchanger
    /\ Len(excalls) = 2
    /\ excalls[2].op = "run"
    /\ excalls[2].ex = 3

IsPrefix(a, b) ==
    /\ Len(a) <= Len(b)
    /\ \A i \in DOMAIN a : a[i] = b[i]

\* the method calls C5 expects of the running call, in order (the value run
\* returns is not fixed by the call)
ExpectedCalls(ret) ==
    LET ex == IF args.loopback THEN n_exchangers ELSE args.credential_exchanger
        run == ExCall(ex, "run", NoTarget, duet_id(signaling_client), FALSE,
                      ret)
        setrole == ExCall(ex, "set_role", NoTarget, 0, TRUE, NoTarget)
        setid == ExCall(ex, "set_responder_id", args.target_id, 0, FALSE,
                        NoTarget)
    IN  IF role = "launch" THEN <<run>>
        ELSE IF args.loopback THEN <<setrole, run>>
        ELSE <<setid, setrole, run>>

\* C5: join_duet without loopback calls set_responder_id(caller's target id),
\* then set_role(join=True), then run(credential = the session's duet id) on
\* the exchanger; with loopback set_role then run, never set_responder_id;
\* launch_duet calls run only. The transport is opened with the target id
\* that run returned.
C5_JoinConfigOrder ==
    InCall =>
        /\ \E ret \in RunReturns \cup {NoTarget} :
              IsPrefix(excalls, ExpectedCalls(ret))
        /\ Completed("exchange") =>
              \E ret \in RunReturns : excalls = ExpectedCalls(ret)
        /\ \A t \in DOMAIN transports :
              /\ RunCalls = {Len(excalls)}
              /\ transports[t].target_id = excalls[Len(excalls)].ret
              /\ excalls[Len(excalls)].cred = duet_id(signaling_client)

C5_Witness ==
    /\ pc = "done"
    /\ role = "join"
    /\ ~args.loopback
    /\ args.target_id = "T1"
    /\ Len(excalls) = 3
    /\ excalls[3].ret = "T2"
    /\ transports[1].target_id = "T2"

\* C6: a launch_duet that returns has constructed exactly one node, new and
\* named "Launcher", opened exactly one transport on it with offer=True and
\* the session registered in this call, and returns that node's root client;
\* a join_duet that returns has done so with a node named "Joiner" that got
\* no db_path and offer=False, and returns the transport.
C6_RolesAndHandles ==
    /\ Len(nodes) <= 1
    /\ Len(transports) <= 1
    /\ pc = "done" =>
          /\ Len(nodes) = 1
          /\ Len(transports) = 1
          /\ nodes[1].id = n_nodes
          /\ transports[1].id = n_transports
          /\ transports[1].node = nodes[1].id
          /\ transports[1].signaling_client = sessions
          /\ sessions > 0
          /\ IF role = "launch"
             THEN /\ nodes[1].name = "Launcher"
                  /\ nodes[1].db_path = args.db_path
                  /\ transports[1].offer = TRUE
                  /\ result = [kind |-> "client", ref |-> nodes[1].id,
                               err |-> ""]
             ELSE /\ nodes[1].name = "Joiner"
                  /\ nodes[1].db_path = NotGiven
                  /\ transports[1].offer = FALSE
                  /\ result = [kind |-> "transport", ref |-> transports[1].id,
                               err |-> ""]

C6_Witness ==
    /\ pc = "done"
    /\ role = "join"
    /\ calls = 2
    /\ n_nodes = 2
    /\ n_transports = 2
    /\ result.ref = 2

\* the reporters the running call started
OwnReporters == {k \in DOMAIN reporters : reporters[k].call = calls}

\* C7 (as stated): a launch_duet with logging enabled that completed its
\* bootstrap and returned has started exactly one reporter, on its node.
C7_ReporterWheneverLogging ==
    (pc = "done" /\ role = "launch" /\ args.logging) =>
        /\ Cardinality(OwnReporters) = 1
        /\ \A k \in OwnReporters : reporters[k].node = my_domain

\* C7 (amended): a launch_duet with logging enabled calls begin_duet_logger
\* once, after the transport is connected, and that starts one reporter on
\* the call's node exactly when sys.stdout has a parent_header; without that
\* attribute, with logging disabled, and in every join_duet, no reporter is
\* started.
C7_ReporterStart ==
    InCall =>
        /\ Cardinality(OwnReporters) =
              IF /\ role = "launch"
                 /\ args.logging
                 /\ stdout_has_parent
                 /\ pc \in {"return", "done"}
              THEN 1 ELSE 0
        /\ \A k \in OwnReporters :
              /\ reporters[k].node = my_domain
              /\ Len(transports) = 1
              /\ transports[1].node = my_domain
              /\ Completed("transport")
              /\ Completed("logger")

C7_Witness ==
    /\ pc = "done"
    /\ role = "launch"
    /\ args.logging
    /\ stdout_has_parent
    /\ calls = 2
    /\ reporters = <<[node |-> 1, call |-> 1], [node |-> 2, call |-> 2]>>

\* C8: decoding the message a Range encodes to gives an object with the
\* Range's start, stop and step and its identifier.
C8_RangeRoundTrip ==
    r_pc = "decoded" =>
        /\ r_dec.start = Some(r_obj.start)
        /\ r_dec.stop = Some(r_obj.stop)
        /\ r_dec.step = Some(r_obj.step)
        /\ r_dec.id = r_obj.id

\* C9: in the message a Range encodes to, has_start, has_stop and has_step
\* are true and the fields carry the Range's values, a value of zero
\* included.
C9_PresenceFlags ==
    r_pc \in {"encoded", "decoded"} =>
        /\ r_pb.has_start /\ r_pb.start = r_obj.start
        /\ r_pb.has_stop /\ r_pb.stop = r_obj.stop
        /\ r_pb.has_step /\ r_pb.step = r_obj.step

\* C10: decoding the message of any wrapper gives the raw sentinel, not a
\* wrapper carrying the decoded UID; upcast gives the raw sentinel; __eq__
\* against a wrapper or against the raw sentinel gives true.
C10_SentinelNotEnvelope ==
    /\ ni_dec # Nothing =>
          (ni_dec = RawNotImplemented /\ ni_dec.kind # "_SyNotImplemented")
    /\ ni_up # Nothing => ni_up = RawNotImplemented
    /\ (ni_eq # Nothing /\ ni_other.kind \in {"_SyNotImplemented",
                                              "NotImplemented"}) =>
          ni_eq = PrimitiveTrue
    /\ ni_pb # Nothing => ni_pb.id.value \in Uids

C10_Witness ==
    /\ ni_obj = Wrapper(2)
    /\ ni_pb = [id |-> [value |-> 2]]
    /\ ni_dec = RawNotImplemented
    /\ ni_up = RawNotImplemented
    /\ ni_other = Wrapper(3)
    /\ ni_eq = PrimitiveTrue


\* C11: whenever a counterThread writes its line (the flush that sends it),
\* sys.stdout.parent_header is the thread_parent it captured when it started,
\* whatever the kernel and the other counterThreads do meanwhile
C11_WritesToOwnTarget ==
    \A k \in ThreadIds :
        threads[k].pc = "flush" => parent_header = threads[k].thread_parent

\* C12: the value a render restores (save_parent, what Restore wrote) is the
\* value parent_header had immediately before that render set it
C12_RestoresPrevious ==
    \A k \in ThreadIds :
        threads[k].pc = "release" => threads[k].save_parent = threads[k].before


\* the glyph of tick t as the specification states it: floor(t/5) mod 2
Phase(t) == IF (t \div 5) % 2 = 0 THEN "*" ELSE "-"

\* C13: a render at tick t prints the glyph of phase floor(t/5) mod 2, which
\* is the same within a block of 5 ticks and changes from one block to the
\* next; the Requests field is coloured and bracketed by the bold markers
\* exactly when the glyph is "*" and the node has a pending request, and has
\* plain spaces around it otherwise; the four counts are the counters of the
\* node at the moment of the render; the tick grows by one per render
C13_BlinkAndCounts ==
    [][\A k \in ThreadIds :
        /\ (/\ threads[k].pc = "body"
            /\ threads'[k].pc = "flush"
            /\ ~threads'[k].raised)
           => LET o == threads'[k].out
                  t == threads[k].iterator
                  d == domains[NodeOf(k)]
                  hot == Phase(t) = "*" /\ d.requests > 0
              IN  /\ o.star = Phase(t)
                  /\ t + 5 <= MaxTick => Phase(t + 5) # Phase(t)
                  /\ (t % 5) # 4 => Phase(t + 1) = Phase(t)
                  /\ (t % 5) = 4 => Phase(t + 1) # Phase(t)
                  /\ hot => /\ o.left_color = FAIL
                            /\ o.right_color = ENDC
                            /\ o.left_blink = <<BOLD, ">", ENDC>>
                            /\ o.right_blink = <<BOLD, "<", ENDC>>
                  /\ ~hot => /\ o.left_color = ""
                             /\ o.right_color = ""
                             /\ o.left_blink = <<" ">>
                             /\ o.right_blink = <<" ">>
                  /\ o.objects = d.store
                  /\ o.requests = d.requests
                  /\ o.messages = d.message_counter
                  /\ o.request_handlers = d.request_handlers
        /\ (/\ threads[k].pc = "release"
            /\ threads'[k].pc = "sleep"
            /\ threads[k].iterator < MaxTick)
           => threads'[k].iterator = threads[k].iterator + 1
      ]_vars

\* a render of the third blink phase (on again after off) with the Requests
\* field bracketed
C13_Witness ==
    \E k \in ThreadIds :
        /\ threads[k].pc = "flush"
        /\ ~threads[k].raised
        /\ threads[k].iterator >= 10
        /\ threads[k].out.star = "*"
        /\ threads[k].out.left_blink = <<BOLD, ">", ENDC>>
        /\ threads[k].out.requests > 0

HoldsLock(k) == stdout_lock[k] = k

\* C14: a counterThread holds its lock only inside one render: not while it
\* sleeps, not after an exception ended it; no step of it changes the node;
\* a lock it holds is released, and after every sleep it renders again
C14_LockOnlyWhileRendering ==
    /\ [](\A k \in ThreadIds :
            HoldsLock(k) <=>
                threads[k].pc \in {"set", "body", "flush", "restore", "release"})
    /\ [][(\E k \in ThreadIds : counterThread(k)) => domains' = domains]_vars
    /\ \A k \in ThreadIds : HoldsLock(k) ~> ~HoldsLock(k)
    /\ \A k \in ThreadIds :
         (threads[k].pc = "sleep") ~> (threads[k].pc = "body")

\* a thread ended by an exception in a render, after renders that went well
C14_Witness ==
    \E k \in ThreadIds :
        /\ threads[k].pc = "dead"
        /\ threads[k].raised
        /\ threads[k].iterator > 0
        /\ ~HoldsLock(k)

====
